---- MODULE Spec2Model ----
(***************************************************************************)
(* Model of sisl/io/tbtrans/se.py: the TBtrans self-energy file object     *)
(* tbtsencSileTBtrans.  The state is the opened, read-only dataset (the    *)
(* root pivot table and one group per electrode) together with the call    *)
(* being made on the object and what it returns or raises.  The object is  *)
(* used synchronously from one thread and keeps no result: a call starts   *)
(* when no call is under way, and Return hands control back to the caller. *)
(*                                                                         *)
(* Python sequences are 0-based, TLA+ sequences 1-based: every index the   *)
(* program handles keeps its 0-based value and is shifted only at the      *)
(* point of access (At).  Strings the program parses are sequences of      *)
(* characters.  Energies are integers in meV: the stored numbers are       *)
(* integers in Ry and Ry2eV is the factor 13.606 eV/Ry in meV.             *)
(***************************************************************************)
EXTENDS Integers, Sequences, FiniteSets, TLC

VARIABLES root, groups, call, ret

vars == <<root, groups, call, ret>>

----------------------------------------------------------------------------
(* Bounds of the explored datasets and inputs *)

NOrb == 4
DevLen == 3
MaxElecOrb == 2
NK == 2
NE == 2
MaxIndex == 2
MaxStored == 2

(* Program constant, se.py line 23 *)
Ry2eV == 13606

----------------------------------------------------------------------------
(* Results of a call: a returned value or a raised exception *)

Ok(v) == [ok |-> TRUE, val |-> v, err |-> ""]

Fail(e) == [ok |-> FALSE, val |-> <<>>, err |-> e]

(* 0-based element access *)
At(s, i) == s[i + 1]

Range(s) == {s[i] : i \in 1..Len(s)}

----------------------------------------------------------------------------
(* Electrode identifiers: a str, an int, or None *)

StrId(s) == [tag |-> "str", s |-> s, i |-> 0]

IntId(i) == [tag |-> "int", s |-> <<>>, i |-> i]

None == [tag |-> "none", s |-> <<>>, i |-> 0]

Left == <<"L", "e", "f", "t">>

Right == <<"R", "i", "g", "h", "t">>

Top == <<"T", "o", "p">>

Digits == <<"0", "1", "2", "3", "4", "5", "6", "7", "8", "9">>

IsDigit(c) == \E d \in 1..10 : Digits[d] = c

DigitVal(c) == (CHOOSE d \in 1..10 : Digits[d] = c) - 1

RECURSIVE Decimal(_)
Decimal(s) ==
    IF s = <<>> THEN 0
    ELSE 10 * Decimal(SubSeq(s, 1, Len(s) - 1)) + DigitVal(s[Len(s)])

(* Python int(x): an int is itself; a str is parsed as an optional sign  *)
(* followed by decimal digits (ValueError otherwise); None is a TypeError *)
int(x) ==
    CASE x.tag = "int" -> Ok(x.i)
      [] x.tag = "none" -> Fail("TypeError")
      [] OTHER ->
           LET s == x.s
               signed == Len(s) > 0 /\ s[1] \in {"-", "+"}
               body == IF signed THEN Tail(s) ELSE s
           IN  IF Len(body) > 0 /\ \A p \in 1..Len(body) : IsDigit(body[p])
               THEN Ok(IF signed /\ s[1] = "-" THEN 0 - Decimal(body)
                       ELSE Decimal(body))
               ELSE Fail("ValueError")

----------------------------------------------------------------------------
(* numpy helpers *)

(* np.isin(a, b): elementwise membership mask of a in b *)
np_isin(a, b) == [p \in 1..Len(a) |-> a[p] \in Range(b)]

(* mask.nonzero()[0]: ascending 0-based positions where the mask is set *)
np_nonzero(mask) ==
    LET pos == [p \in 1..Len(mask) |-> p - 1]
    IN  SelectSeq(pos, LAMBDA q : mask[q + 1])

RECURSIVE InsertBy(_, _, _)
(* insert x into the key-sorted sequence s, after the keys that are <= *)
InsertBy(key, s, x) ==
    IF s = <<>> THEN <<x>>
    ELSE IF key[x] < key[Head(s)] THEN <<x>> \o s
         ELSE <<Head(s)>> \o InsertBy(key, Tail(s), x)

RECURSIVE SortPrefix(_, _)
SortPrefix(a, n) ==
    IF n = 0 THEN <<>>
    ELSE InsertBy([v \in Range(a) |-> v], SortPrefix(a, n - 1), a[n])

(* np.sort(a): ascending copy *)
np_sort(a) == SortPrefix(a, Len(a))

RECURSIVE ArgPrefix(_, _)
ArgPrefix(a, n) ==
    IF n = 0 THEN <<>>
    ELSE InsertBy([p \in 1..Len(a) |-> a[p]], ArgPrefix(a, n - 1), n)

(* np.argsort(a): 0-based indices that sort a ascending *)
np_argsort(a) ==
    LET one == ArgPrefix(a, Len(a))
    IN  [p \in 1..Len(one) |-> one[p] - 1]

(* a - 1 on an integer array *)
MinusOne(a) == [p \in 1..Len(a) |-> a[p] - 1]

----------------------------------------------------------------------------
(* The dataset collaborator (sisl/io/sile.py, sisl/io/tbtrans/_cdf.py) *)

(* the group whose name is the key `tree`; a key that is no group name, *)
(* an int among them, is absent                                         *)
HasGroup(tree) ==
    tree.tag = "str" /\ \E g \in 1..Len(groups) : groups[g].name = tree.s

GroupOf(tree) ==
    groups[CHOOSE g \in 1..Len(groups) : groups[g].name = tree.s]

(* self._variable(name, tree): the stored variable, KeyError when the *)
(* group or the variable is absent                                    *)
_variable(name, tree) ==
    IF tree = None
    THEN IF name \in DOMAIN root THEN Ok(root[name]) ELSE Fail("KeyError")
    ELSE IF ~HasGroup(tree) THEN Fail("KeyError")
         ELSE IF name \in DOMAIN GroupOf(tree).vars
              THEN Ok(GroupOf(tree).vars[name])
              ELSE Fail("KeyError")

(* self._value(name, tree): the data of the stored variable *)
_value(name, tree) == _variable(name, tree)

(* self.kindex(k), self.Eindex(E) for integer selectors: the index itself *)
kindex(k) == k

Eindex(E) == E

----------------------------------------------------------------------------
(* tbtsencSileTBtrans *)

(* list(self.groups.keys()) *)
elecs == [g \in 1..Len(groups) |-> groups[g].name]

(* Python list indexing l[i], negative indices counting from the end *)
ListGet(l, i) ==
    IF 0 <= i /\ i < Len(l) THEN Ok(l[i + 1])
    ELSE IF 0 - Len(l) <= i /\ i < 0 THEN Ok(l[Len(l) + i + 1])
         ELSE Fail("IndexError")

(* _elec falling back to the first electrode instead of the identifier *)
_elec_first(elec) ==
    LET n == int(elec)
    IN  IF ~n.ok THEN StrId(elecs[1])
        ELSE LET e == ListGet(elecs, n.val)
             IN  IF e.ok THEN StrId(e.val) ELSE StrId(elecs[1])

_elec(elec) ==
    LET n == int(elec)
    IN  IF ~n.ok THEN elec
        ELSE LET e == ListGet(elecs, n.val)
             IN  IF e.ok THEN StrId(e.val) ELSE elec

(* chemical_potential with the try/except of eta *)
chemical_potential_default(elec) ==
    LET v == _value("mu", _elec(elec))
    IN  IF v.ok THEN Ok(At(v.val, 0) * Ry2eV) ELSE Ok(0)

chemical_potential(elec) ==
    LET v == _value("mu", _elec(elec))
    IN  IF v.ok THEN Ok(At(v.val, 0) * Ry2eV) ELSE v

eta(elec) ==
    LET v == _value("eta", _elec(elec))
    IN  IF v.ok THEN Ok(At(v.val, 0) * Ry2eV) ELSE Ok(0)

(* pivot without the final np.sort *)
pivot_unsorted(elec, in_device, sort) ==
    LET dev == _value("pivot", None)
    IN  IF (elec = None \/ in_device) /\ ~dev.ok THEN dev
        ELSE IF elec = None THEN Ok(MinusOne(dev.val))
        ELSE LET se == _value("pivot", _elec(elec))
             IN  IF ~se.ok THEN se
                 ELSE LET se_pvt == MinusOne(se.val)
                      IN  Ok(IF in_device
                             THEN np_nonzero(np_isin(MinusOne(dev.val), se_pvt))
                             ELSE se_pvt)

(* pivot passing the electrode's values through instead of translating *)
(* them to device positions                                            *)
pivot_values(elec, in_device, sort) ==
    LET dev == _value("pivot", None)
    IN  IF (elec = None \/ in_device) /\ ~dev.ok THEN dev
        ELSE IF elec = None THEN Ok(MinusOne(dev.val))
        ELSE LET se == _value("pivot", _elec(elec))
             IN  IF ~se.ok THEN se
                 ELSE LET se_pvt == MinusOne(se.val)
                      IN  Ok(IF sort THEN np_sort(se_pvt) ELSE se_pvt)

pivot(elec, in_device, sort) ==
    LET dev == _value("pivot", None)
    IN  IF (elec = None \/ in_device) /\ ~dev.ok THEN dev
        ELSE IF elec = None THEN Ok(MinusOne(dev.val))
        ELSE LET se == _value("pivot", _elec(elec))
             IN  IF ~se.ok THEN se
                 ELSE LET se_pvt == MinusOne(se.val)
                          tr == IF in_device
                                THEN np_nonzero(np_isin(MinusOne(dev.val), se_pvt))
                                ELSE se_pvt
                      IN  Ok(IF sort THEN np_sort(tr) ELSE tr)

(* np.isin(self.pivot(), orbital).nonzero()[0], orbital a list of ints *)
o2p(orbital) ==
    LET pvt == pivot(None, FALSE, FALSE)
    IN  IF ~pvt.ok THEN pvt ELSE Ok(np_nonzero(np_isin(pvt.val, orbital)))

(* (re + 1j * im) * Ry2eV, elementwise *)
Complex(re, im) ==
    [r \in 1..Len(re) |->
        [c \in 1..Len(re[r]) |->
            [re |-> re[r][c] * Ry2eV, im |-> im[r][c] * Ry2eV]]]

(* m[idx, idx.T], idx a column of 0-based indices: entry (i, j) is        *)
(* m[idx[i], idx[j]]; an index past the dimension of m is an IndexError   *)
Gather(m, idx) ==
    IF \E p \in 1..Len(idx) : idx[p] >= Len(m) THEN Fail("IndexError")
    ELSE Ok([i \in 1..Len(idx) |->
                [j \in 1..Len(idx) |-> At(At(m, idx[i]), idx[j])]])

(* the sorted branch taking the permutation from the sorted table *)
Select_sortedpivot(re, im, elec, sort) ==
    IF sort
    THEN LET pvt == pivot(elec, FALSE, TRUE)
         IN  IF ~pvt.ok THEN pvt
             ELSE LET idx == np_argsort(pvt.val)
                      gre == Gather(re, idx)
                      gim == Gather(im, idx)
                  IN  IF ~gre.ok THEN gre
                      ELSE IF ~gim.ok THEN gim
                           ELSE Ok(Complex(gre.val, gim.val))
    ELSE Ok(Complex(re, im))

(* the sorted branch permuting the rows and leaving the columns *)
Select_rowsonly(re, im, elec, sort) ==
    IF sort
    THEN LET pvt == pivot(elec, FALSE, FALSE)
         IN  IF ~pvt.ok THEN pvt
             ELSE LET idx == np_argsort(pvt.val)
                  IN  IF \E p \in 1..Len(idx) : idx[p] >= Len(re)
                      THEN Fail("IndexError")
                      ELSE Ok(Complex([i \in 1..Len(idx) |-> At(re, idx[i])],
                                      [i \in 1..Len(idx) |-> At(im, idx[i])]))
    ELSE Ok(Complex(re, im))

(* the return statements shared by self_energy and self_energy_average *)
Select(re, im, elec, sort) ==
    IF sort
    THEN LET pvt == pivot(elec, FALSE, FALSE)
         IN  IF ~pvt.ok THEN pvt
             ELSE LET idx == np_argsort(pvt.val)
                      gre == Gather(re, idx)
                      gim == Gather(im, idx)
                  IN  IF ~gre.ok THEN gre
                      ELSE IF ~gim.ok THEN gim
                           ELSE Ok(Complex(gre.val, gim.val))
    ELSE Ok(Complex(re, im))

self_energy(elec, k, E, sort) ==
    LET tree == _elec(elec)
        ik == kindex(k)
        iE == Eindex(E)
        re == _variable("ReSelfEnergy", tree)
        im == _variable("ImSelfEnergy", tree)
    IN  IF ~re.ok THEN re
        ELSE IF ~im.ok THEN im
             ELSE Select(At(At(re.val, ik), iE), At(At(im.val, ik), iE),
                         elec, sort)

self_energy_average(elec, E, sort) ==
    LET tree == _elec(elec)
        iE == Eindex(E)
        re == _variable("ReSelfEnergyMean", tree)
        im == _variable("ImSelfEnergyMean", tree)
    IN  IF ~re.ok THEN re
        ELSE IF ~im.ok THEN im
             ELSE Select(At(re.val, iE), At(im.val, iE), elec, sort)

----------------------------------------------------------------------------
(* The datasets explored.  Tables are stored 1-based and duplicate-free;  *)
(* an electrode's table is drawn from the values of the device table      *)
(* (the self-energies are downfolded into the device region).             *)

MaxDim == MaxElecOrb + 1

InjSeqs(S, n) ==
    {s \in [1..n -> S] : \A p, q \in 1..n : p # q => s[p] # s[q]}

DevTables == InjSeqs(1..NOrb, DevLen)

LeftTables(dev) ==
    UNION {InjSeqs(Range(dev), n) :
              n \in 1..(IF MaxElecOrb < DevLen THEN MaxElecOrb ELSE DevLen - 1)}

(* the second electrode takes device orbitals the first one leaves *)
RightTable(dev, left) ==
    LET rest == SelectSeq(dev, LAMBDA v : v \notin Range(left))
    IN  SubSeq(rest, 1, IF Len(rest) < MaxElecOrb THEN Len(rest) ELSE MaxElecOrb)

Tables == UNION {{<<dev, left>> : left \in LeftTables(dev)} : dev \in DevTables}

(* the dataset of the docstring of pivot: se.pivot() is [3, 4, 6, 5, 2] *)
(* and se.pivot(0) is [2, 3]                                             *)
DocTables == <<<<4, 5, 7, 6, 3>>, <<3, 4>>>>

(* stored matrix entries; seed 0 gives pairwise distinct entries, seed 1 *)
(* a symmetric real and an antisymmetric imaginary part                  *)
ReStored(seed, k, E, r, c) ==
    IF seed = 0 THEN ((k * NE + E) * MaxDim + r) * MaxDim + c + 1
    ELSE k + E + r + c

ImStored(seed, k, E, r, c) ==
    IF seed = 0 THEN ((k * NE + E) * MaxDim + c) * MaxDim + r + 1
    ELSE r - c

ReMatrix(seed, k, E, dim) ==
    [r \in 1..dim |-> [c \in 1..dim |-> ReStored(seed, k, E, r - 1, c - 1)]]

ImMatrix(seed, k, E, dim) ==
    [r \in 1..dim |-> [c \in 1..dim |-> ImStored(seed, k, E, r - 1, c - 1)]]

GroupVars(pvt, dim, seed, attr) ==
    LET names == {"pivot", "ReSelfEnergy", "ImSelfEnergy",
                  "ReSelfEnergyMean", "ImSelfEnergyMean"}
                 \cup (IF attr.hasMu THEN {"mu"} ELSE {})
                 \cup (IF attr.hasEta THEN {"eta"} ELSE {})
    IN  [v \in names |->
           CASE v = "pivot" -> pvt
             [] v = "mu" -> <<attr.mu>>
             [] v = "eta" -> <<attr.eta>>
             [] v = "ReSelfEnergy" ->
                  [k \in 1..NK |-> [E \in 1..NE |-> ReMatrix(seed, k - 1, E - 1, dim)]]
             [] v = "ImSelfEnergy" ->
                  [k \in 1..NK |-> [E \in 1..NE |-> ImMatrix(seed, k - 1, E - 1, dim)]]
             [] v = "ReSelfEnergyMean" ->
                  [E \in 1..NE |-> ReMatrix(seed, NK, E - 1, dim)]
             [] OTHER ->
                  [E \in 1..NE |-> ImMatrix(seed, NK, E - 1, dim)]]

Dim(pvt, off) == IF Len(pvt) + off < 0 THEN 0 ELSE Len(pvt) + off

Attr(hasMu, hasEta, mu, eta_) ==
    [hasMu |-> hasMu, hasEta |-> hasEta, mu |-> mu, eta |-> eta_]

FullAttr == Attr(TRUE, TRUE, 1, 1)

Dataset(t, off, seed, attrL, attrR, n) ==
    /\ root = [pivot |-> t[1]]
    /\ groups = SubSeq(
         << [name |-> Left,
             vars |-> GroupVars(t[2], Dim(t[2], off), seed, attrL)],
            [name |-> Right,
             vars |-> LET rt == RightTable(t[1], t[2])
                      IN  GroupVars(rt, Dim(rt, off), seed, attrR)] >>, 1, n)

NoCall ==
    [op |-> "idle", elec |-> None, in_device |-> FALSE, sort |-> FALSE,
     k |-> 0, E |-> 0, orbital |-> <<>>]

Opened == call = NoCall /\ ret = Ok(<<>>)

(* well-formed files whose tables vary *)
InitPivot ==
    /\ \E t \in Tables \cup {DocTables} :
          Dataset(t, 0, 0, FullAttr, FullAttr, 2)
    /\ Opened

(* the device table that starts with the electrode's table and goes on *)
(* with the lowest orbitals left                                       *)
DevFor(left) ==
    LET all == [o \in 1..NOrb |-> o]
        rest == SelectSeq(all, LAMBDA v : v \notin Range(left))
    IN  left \o SubSeq(rest, 1, DevLen - Len(left))

SETables ==
    {<<DevFor(left), left>> :
        left \in UNION {InjSeqs(1..NOrb, n) :
             n \in 1..(IF MaxElecOrb < DevLen THEN MaxElecOrb ELSE DevLen - 1)}}

(* files whose matrices may be one row/column short or long of the table *)
InitSE ==
    /\ \E t \in SETables \cup {DocTables}, off \in {-1, 0, 1}, seed \in {0, 1} :
          Dataset(t, off, seed, FullAttr, FullAttr, 2)
    /\ Opened

(* files whose electrodes have or lack the mu and eta variables *)
InitAttr ==
    /\ \E hm1, he1, hm2, he2 \in BOOLEAN,
          m \in (0 - MaxStored)..MaxStored, e \in 0..MaxStored :
          Dataset(DocTables, 0, 0,
                  Attr(hm1, he1, m, e), Attr(hm2, he2, m + 1, e + 1), 2)
    /\ Opened

(* the docstring's file, with one or two electrodes stored *)
Init ==
    /\ \E n \in 1..2, seed \in {0, 1} :
          Dataset(DocTables, 0, seed, FullAttr, FullAttr, n)
    /\ Opened

----------------------------------------------------------------------------
(* The calls a caller makes on the opened file *)

ElecIds ==
    {StrId(n) : n \in {Left, Right, Top, <<"1">>, <<"7">>}}
    \cup {IntId(i) : i \in (0 - MaxIndex - 1)..MaxIndex}

Orbitals == {<<>>} \cup {<<o>> : o \in 0..(NOrb - 1)}
            \cup {<<o, o + 1>> : o \in 0..(NOrb - 1)}

Call(op, elec, in_device, sort, k, E, orbital) ==
    [op |-> op, elec |-> elec, in_device |-> in_device, sort |-> sort,
     k |-> k, E |-> E, orbital |-> orbital]

Pivot ==
    \E elec \in ElecIds \cup {None}, in_device, sort \in BOOLEAN :
       /\ call = NoCall
       /\ call' = Call("pivot", elec, in_device, sort, 0, 0, <<>>)
       /\ ret' = pivot(elec, in_device, sort)
       /\ UNCHANGED <<root, groups>>

SelfEnergy ==
    \E elec \in ElecIds, k \in 0..(NK - 1), E \in 0..(NE - 1), sort \in BOOLEAN :
       /\ call = NoCall
       /\ call' = Call("self_energy", elec, FALSE, sort, k, E, <<>>)
       /\ ret' = self_energy(elec, k, E, sort)
       /\ UNCHANGED <<root, groups>>

SelfEnergyAverage ==
    \E elec \in ElecIds, E \in 0..(NE - 1), sort \in BOOLEAN :
       /\ call = NoCall
       /\ call' = Call("self_energy_average", elec, FALSE, sort, 0, E, <<>>)
       /\ ret' = self_energy_average(elec, E, sort)
       /\ UNCHANGED <<root, groups>>

ChemicalPotential ==
    \E elec \in ElecIds :
       /\ call = NoCall
       /\ call' = Call("chemical_potential", elec, FALSE, FALSE, 0, 0, <<>>)
       /\ ret' = chemical_potential(elec)
       /\ UNCHANGED <<root, groups>>

Eta ==
    \E elec \in ElecIds :
       /\ call = NoCall
       /\ call' = Call("eta", elec, FALSE, FALSE, 0, 0, <<>>)
       /\ ret' = eta(elec)
       /\ UNCHANGED <<root, groups>>

O2p ==
    \E orbital \in Orbitals :
       /\ call = NoCall
       /\ call' = Call("o2p", None, FALSE, FALSE, 0, 0, orbital)
       /\ ret' = o2p(orbital)
       /\ UNCHANGED <<root, groups>>

(* the method returns to the caller; nothing of the call stays behind *)
Return ==
    /\ call # NoCall
    /\ call' = NoCall
    /\ ret' = Ok(<<>>)
    /\ UNCHANGED <<root, groups>>

Next ==
    \/ Pivot
    \/ SelfEnergy
    \/ SelfEnergyAverage
    \/ ChemicalPotential
    \/ Eta
    \/ O2p
    \/ Return

NextPivot ==
    \/ Pivot
    \/ O2p
    \/ Return

NextSE ==
    \/ SelfEnergy
    \/ SelfEnergyAverage
    \/ Return

NextAttr ==
    \/ ChemicalPotential
    \/ Eta
    \/ Return

Spec == Init /\ [][Next]_vars

SpecPivot == InitPivot /\ [][NextPivot]_vars

SpecSE == InitSE /\ [][NextSE]_vars

SpecAttr == InitAttr /\ [][NextAttr]_vars

----------------------------------------------------------------------------
(* Vocabulary of the properties, stated on the stored data *)

IsAscending(s) == \A p, q \in 1..Len(s) : p < q => s[p] <= s[q]

NoDuplicates(s) == \A p, q \in 1..Len(s) : p # q => s[p] # s[q]

Count(s, v) == Cardinality({p \in 1..Len(s) : s[p] = v})

SameValues(s, t) ==
    /\ Len(s) = Len(t)
    /\ \A v \in Range(s) \cup Range(t) : Count(s, v) = Count(t, v)

(* the position in `groups` of the electrode an identifier denotes (an    *)
(* ordinal index, in digits or as an int, else an exact name); 0 if none  *)
Denoted(id) ==
    LET n == int(id)
        len == Len(groups)
    IN  IF n.ok /\ 0 <= n.val /\ n.val < len THEN n.val + 1
        ELSE IF n.ok /\ 0 - len <= n.val /\ n.val < 0 THEN len + n.val + 1
        ELSE IF id.tag = "str" /\ \E g \in 1..len : groups[g].name = id.s
             THEN CHOOSE g \in 1..len : groups[g].name = id.s
             ELSE 0

(* the zero-based tables as stored *)
DeviceTable == [p \in 1..Len(root.pivot) |-> root.pivot[p] - 1]

ElecTable(id) ==
    LET t == groups[Denoted(id)].vars["pivot"]
    IN  [p \in 1..Len(t) |-> t[p] - 1]

(* row/column dimension of the matrices stored for the electrode *)
StoredDim(id) == Len(groups[Denoted(id)].vars["ReSelfEnergyMean"][1])

(* the permutation of 0..n-1 that sorts the table ascending *)
SortingPermutation(t) ==
    CHOOSE idx \in InjSeqs(0..(Len(t) - 1), Len(t)) :
        IsAscending([p \in 1..Len(t) |-> At(t, idx[p])])

IsSquare(m, n) == Len(m) = n /\ \A r \in 1..Len(m) : Len(m[r]) = n

(* the assignment H[p, p.T] = m as a set of <<row, column, value>> *)
Insert(p, m) == {<<p[i], p[j], m[i][j]>> : i, j \in 1..Len(p)}

IsDocFile == root.pivot = DocTables[1] /\ groups[1].vars["pivot"] = DocTables[2]

SelfEnergyCalls == {"self_energy", "self_energy_average"}

(* what the call in `call` returns when made without sorting *)
Unsorted ==
    IF call.op = "self_energy"
    THEN self_energy(call.elec, call.k, call.E, FALSE)
    ELSE self_energy_average(call.elec, call.E, FALSE)

----------------------------------------------------------------------------
(* C1: pivot(e, in_device=True, sort=False) is in electrode-local order:  *)
(* its i-th element is the position, in the device table pivot(), of the  *)
(* i-th value of the electrode table pivot(e); for the docstring's file   *)
(* pivot(0, in_device=True) is [4, 0].                                    *)
C1_LocalOrder ==
    (/\ call.op = "pivot" /\ call.elec # None /\ Denoted(call.elec) # 0
     /\ call.in_device /\ ~call.sort)
    => /\ ret.ok
       /\ Len(ret.val) = Len(ElecTable(call.elec))
       /\ \A p \in 1..Len(ret.val) :
             /\ ret.val[p] \in 0..(Len(DeviceTable) - 1)
             /\ At(DeviceTable, ret.val[p]) = ElecTable(call.elec)[p]
       /\ (IsDocFile /\ call.elec = IntId(0)) => ret.val = <<4, 0>>

(* C5: with the electrode omitted, pivot(sort=True) is the ascending copy *)
(* of the device table.                                                   *)
C5_DeviceSorted ==
    (call.op = "pivot" /\ call.elec = None /\ call.sort)
    => /\ ret.ok
       /\ IsAscending(ret.val)
       /\ SameValues(ret.val, DeviceTable)

(* C6: for every stored electrode, by name or ordinal, and both values of *)
(* in_device, pivot(e, in_device, sort=True) has the length of            *)
(* pivot(e, in_device, sort=False) and is its ascending sort.             *)
C6_SortIsAscendingCopy ==
    (/\ call.op = "pivot" /\ call.elec # None /\ Denoted(call.elec) # 0
     /\ call.sort)
    => LET u == pivot(call.elec, call.in_device, FALSE)
       IN  /\ ret.ok /\ u.ok
           /\ Len(ret.val) = Len(u.val)
           /\ IsAscending(ret.val)
           /\ SameValues(ret.val, u.val)

C6_Witness ==
    /\ call.op = "pivot" /\ call.elec = IntId(0) /\ call.sort
    /\ ~call.in_device /\ ret.ok
    /\ ~IsAscending(ElecTable(call.elec))
    /\ Len(ret.val) = 2

(* C7: for every stored electrode and every value of sort,                *)
(* pivot(e, in_device=True) is duplicate-free, as long as the electrode's *)
(* table pivot(e), and made of positions in range(len(pivot())).          *)
C7_DevicePositions ==
    (/\ call.op = "pivot" /\ call.elec # None /\ Denoted(call.elec) # 0
     /\ call.in_device)
    => /\ ret.ok
       /\ NoDuplicates(ret.val)
       /\ Len(ret.val) = Len(ElecTable(call.elec))
       /\ \A p \in 1..Len(ret.val) : ret.val[p] \in 0..(Len(DeviceTable) - 1)

C7_Witness ==
    /\ call.op = "pivot" /\ call.elec = StrId(Left) /\ call.in_device
    /\ ret.ok /\ Len(ret.val) = 2
    /\ \E p \in 1..Len(DeviceTable) : DeviceTable[p] >= Len(DeviceTable)

(* C2: self_energy(e, ik, iE, sort=True) is the symmetric gather of the   *)
(* unsorted matrix by the permutation idx that sorts the unsorted table   *)
(* pivot(e): entry (i, j) is entry (idx[i], idx[j]) of                    *)
(* self_energy(e, ik, iE, sort=False), and the result is square with side *)
(* len(pivot(e)).                                                         *)
C2_SymmetricGather ==
    (/\ call.op = "self_energy" /\ call.sort /\ Denoted(call.elec) # 0
     /\ StoredDim(call.elec) >= Len(ElecTable(call.elec)))
    => LET pvt == ElecTable(call.elec)
           idx == SortingPermutation(pvt)
           u == Unsorted
       IN  /\ ret.ok /\ u.ok
           /\ IsSquare(ret.val, Len(pvt))
           /\ \A i, j \in 1..Len(pvt) :
                 ret.val[i][j] = At(At(u.val, idx[i]), idx[j])

C2_Witness ==
    /\ call.op = "self_energy" /\ call.sort /\ call.elec = StrId(Left)
    /\ call.k = 1 /\ ret.ok
    /\ Len(ret.val) = 2
    /\ ~IsAscending(ElecTable(call.elec))
    /\ ret.val # Unsorted.val

(* C3: inserting into the full-grid Hamiltonian is the same with sorted   *)
(* and unsorted data: pivot(e) with the unsorted matrix and               *)
(* pivot(e, sort=True) with the sorted matrix give the same mapping from  *)
(* full-grid index pairs to values.                                       *)
C3_FullInsertEquivalent ==
    (/\ call.op = "self_energy" /\ call.sort /\ Denoted(call.elec) # 0
     /\ ret.ok)
    => LET u == Unsorted
           pu == pivot(call.elec, FALSE, FALSE)
           ps == pivot(call.elec, FALSE, TRUE)
       IN  /\ u.ok /\ pu.ok /\ ps.ok
           /\ Insert(pu.val, u.val) = Insert(ps.val, ret.val)

C3_Witness ==
    /\ call.op = "self_energy" /\ call.sort /\ call.elec = IntId(0)
    /\ call.E = 1 /\ ret.ok
    /\ StoredDim(call.elec) = 2
    /\ pivot(call.elec, FALSE, FALSE) # pivot(call.elec, FALSE, TRUE)
    /\ ret.val # Unsorted.val

(* C4: inserting into the device Hamiltonian is the same with sorted and  *)
(* unsorted data: d = pivot(e, in_device=True) with the unsorted matrix   *)
(* and s = pivot(e, in_device=True, sort=True) with the sorted matrix     *)
(* give the same mapping from device index pairs to values, and the value *)
(* of electrode orbital o lands on the device position whose device-table *)
(* value is o.                                                            *)
C4_DeviceInsertEquivalent ==
    (/\ call.op = "self_energy" /\ call.sort /\ Denoted(call.elec) # 0
     /\ StoredDim(call.elec) = Len(ElecTable(call.elec)))
    => LET u == Unsorted
           d == pivot(call.elec, TRUE, FALSE)
           s == pivot(call.elec, TRUE, TRUE)
       IN  /\ ret.ok /\ u.ok /\ d.ok /\ s.ok
           /\ Insert(d.val, u.val) = Insert(s.val, ret.val)
           /\ \A p \in 1..Len(d.val) :
                 At(DeviceTable, d.val[p]) = ElecTable(call.elec)[p]

C9_ShapeMismatchFails ==
    (/\ call.op \in SelfEnergyCalls /\ call.sort /\ Denoted(call.elec) # 0
     /\ StoredDim(call.elec) # Len(ElecTable(call.elec)))
    => ~ret.ok

(* C10: eta(e) is 0.0 when reading the electrode's eta fails and the      *)
(* converted stored value otherwise; chemical_potential(e) is the         *)
(* converted stored value and fails when the variable or the electrode is *)
(* absent.                                                                *)
C10_OnlyEtaDefaults ==
    LET g == Denoted(call.elec)
        has(v) == g # 0 /\ v \in DOMAIN groups[g].vars
    IN  /\ call.op = "eta" =>
              ret = IF has("eta") THEN Ok(groups[g].vars["eta"][1] * Ry2eV)
                    ELSE Ok(0)
        /\ call.op = "chemical_potential" =>
              IF has("mu") THEN ret = Ok(groups[g].vars["mu"][1] * Ry2eV)
              ELSE ~ret.ok /\ ret.err = "KeyError"

C10_Witness ==
    /\ call.op = "eta" /\ call.elec = StrId(Left)
    /\ "eta" \notin DOMAIN groups[1].vars
    /\ "mu" \in DOMAIN groups[1].vars
    /\ ret = Ok(0)

====
